---- MODULE Spec2Model ----
(***************************************************************************)
(* compare.py: extract the text of the <w:t> runs of two document          *)
(* fragments, write each extracted text to a file and print lengths and    *)
(* previews.  Strings are sequences of one-character strings.              *)
(***************************************************************************)
EXTENDS Integers, Sequences, FiniteSets

VARIABLES fs, exists, fs0, exists0, handles, opens, pc, call, xml_file,
          content, texts, full_text, original, optimized, stdout, failure

vars == <<fs, exists, fs0, exists0, handles, opens, pc, call, xml_file,
          content, texts, full_text, original, optimized, stdout, failure>>

(* ------------------------------ bounds -------------------------------- *)

\* longest input, in segments, of the extraction runs
MaxSegs == 4
\* longest input, in segments, of each file of the whole-script runs
MaxDriverSegs == 1
\* most characters a failing write leaves in the file
MaxPartial == 1

(* --------------------------- fixed strings ---------------------------- *)

OriginalXml == "original_content.xml"
OptimizedXml == "optimized_content.xml"
OriginalTxt == "original_text.txt"
OptimizedTxt == "optimized_text.txt"
Paths == {OriginalXml, OptimizedXml, OriginalTxt, OptimizedTxt}

\* the literal '<w:t' the pattern starts with
OpenPrefix == <<"<", "w", ":", "t">>
\* the literal '</w:t>' the pattern ends with
CloseTag == <<"<", "/", "w", ":", "t", ">">>
\* the slice bound of original[:1000]
PreviewLen == 1000

(* ------------------------------ helpers ------------------------------- *)

Min(S) == CHOOSE x \in S : \A y \in S : x <= y
Max(S) == CHOOSE x \in S : \A y \in S : x >= y

\* s has the literal lit at position i
Lit(s, i, lit) ==
    /\ i >= 1
    /\ i + Len(lit) - 1 <= Len(s)
    /\ \A k \in 1..Len(lit) : s[i + k - 1] = lit[k]

(* ----------------- re.findall(r'<w:t[^>]*>(.*?)</w:t>') ---------------- *)

\* '[^>]' : any character but '>' (newline included)
NotGt(c) == c /= ">"
\* '.' under re.DOTALL : any character
Dot(c) == TRUE

\* '[^>]*>' after the prefix at i: the positions of a '>' reached over
\* characters that are not '>'
OpenEnds(s, i) ==
    {j \in (i + Len(OpenPrefix))..Len(s) :
        /\ s[j] = ">"
        /\ \A k \in (i + Len(OpenPrefix))..(j - 1) : NotGt(s[k])}

\* '(.*?)</w:t>' after the '>' at j: the positions where the closing
\* literal starts, over any characters
CloseStarts(s, j) ==
    {k \in (j + 1)..Len(s) :
        /\ Lit(s, k, CloseTag)
        /\ \A m \in (j + 1)..(k - 1) : Dot(s[m])}

\* '*' is greedy: the longest repetition that lets the rest match
GreedyEnd(S) == Max(S)
\* faulty variant: the group written '(.*)', which runs to the last closing tag
LazyEndGreedy(S) == Max(S)

\* '*?' is lazy: the shortest repetition that lets the rest match
LazyEnd(S) == Min(S)

NoMatch == [open |-> 0, gt |-> 0, close |-> 0, end |-> 0]

\* the match of the pattern anchored at position i, or NoMatch
MatchAt(s, i) ==
    IF ~Lit(s, i, OpenPrefix) THEN NoMatch
    ELSE LET js == {j \in OpenEnds(s, i) : CloseStarts(s, j) /= {}}
         IN  IF js = {} THEN NoMatch
             ELSE LET j == GreedyEnd(js)
                      k == LazyEnd(CloseStarts(s, j))
                  IN  [open |-> i, gt |-> j, close |-> k,
                       end |-> k + Len(CloseTag) - 1]

\* the leftmost match starting at or after pos, or NoMatch
Search(s, pos) ==
    LET is == {i \in pos..Len(s) : MatchAt(s, i) /= NoMatch}
    IN  IF is = {} THEN NoMatch ELSE MatchAt(s, Min(is))

RECURSIVE Scan(_, _)
\* the successive non-overlapping matches from pos on
Scan(s, pos) ==
    LET m == Search(s, pos)
    IN  IF m = NoMatch THEN <<>> ELSE <<m>> \o Scan(s, m.end + 1)

Matches(s) == Scan(s, 1)

\* group 1 of a match
Group1(s, m) == SubSeq(s, m.gt + 1, m.close - 1)

\* faulty variant: falls back to the whole content when nothing matches
FindAllOrWhole(s) ==
    LET ms == Matches(s)
    IN  IF ms = <<>> THEN <<s>>
        ELSE [i \in 1..Len(ms) |-> Group1(s, ms[i])]

\* findall returns the list of the groups
FindAll(s) ==
    LET ms == Matches(s) IN [i \in 1..Len(ms) |-> Group1(s, ms[i])]

RECURSIVE JoinTexts(_)
\* ''.join(texts)
JoinTexts(ts) ==
    IF ts = <<>> THEN <<>> ELSE Head(ts) \o JoinTexts(Tail(ts))

\* faulty variant: the slice written [:999]
PreviewShort(s) ==
    SubSeq(s, 1, IF Len(s) < PreviewLen - 1 THEN Len(s) ELSE PreviewLen - 1)

\* s[:1000]
Preview(s) == SubSeq(s, 1, IF Len(s) < PreviewLen THEN Len(s) ELSE PreviewLen)

(* ------------------------------ inputs -------------------------------- *)

SpanA == <<"<", "w", ":", "t", ">", "A", "<", "/", "w", ":", "t", ">">>
SpanB == <<"<", "w", ":", "t", " ", "x", ">", "B", "\n",
           "<", "/", "w", ":", "t", ">">>
SpanC == <<"<", "w", ":", "t", ">", "C", "<", "/", "w", ":", "t", ">">>
Segments == {OpenPrefix, <<">">>, CloseTag, <<"a">>, <<" ">>,
             SpanA, SpanB, SpanC}

RECURSIVE Flatten(_)
Flatten(ss) == IF ss = <<>> THEN <<>> ELSE Head(ss) \o Flatten(Tail(ss))

Contents(n) ==
    {Flatten(ss) : ss \in UNION {[1..k -> Segments] : k \in 0..n}}

\* a run whose text is longer than the preview
LongDoc ==
    <<"<", "w", ":", "t", ">">> \o [i \in 1..(PreviewLen + 1) |-> "a"]
        \o CloseTag

OldText == <<"o", "l", "d">>

NoFailure == [err |-> "none", at |-> "none", call |-> 0]

InitLocals ==
    /\ handles = {}
    /\ opens = <<>>
    /\ pc = "call1"
    /\ call = 0
    /\ xml_file = ""
    /\ content = <<>>
    /\ texts = <<>>
    /\ full_text = <<>>
    /\ original = <<>>
    /\ optimized = <<>>
    /\ stdout = <<>>
    /\ failure = NoFailure

\* the whole script: each file absent or present with some content
Init ==
    /\ exists \in SUBSET Paths
    /\ \E c1, c2 \in Contents(MaxDriverSegs) \cup {LongDoc} :
          fs = [p \in Paths |->
                  IF p \notin exists THEN <<>>
                  ELSE IF p = OriginalXml THEN c1
                  ELSE IF p = OptimizedXml THEN c2
                  ELSE OldText]
    /\ fs0 = fs
    /\ exists0 = exists
    /\ InitLocals

\* the extraction alone: one input file, read twice
InitExtract ==
    /\ exists = {OriginalXml}
    /\ \E c \in Contents(MaxSegs) :
          fs = [p \in Paths |-> IF p = OriginalXml THEN c ELSE <<>>]
    /\ fs0 = fs
    /\ exists0 = exists
    /\ InitLocals

(* ------------------- extract_text_from_docx_xml ----------------------- *)

Locals == <<xml_file, content, texts, full_text>>
Files == <<fs, exists, fs0, exists0>>
Globals == <<original, optimized, stdout>>

\* the exception leaves the script: traceback, exit status 1
Raise(err, at) ==
    /\ failure' = [err |-> err, at |-> at, call |-> call]
    /\ pc' = "failed"

\* line 4: open(xml_file, 'r') succeeds
OpenIn ==
    /\ pc = "open_in"
    /\ xml_file \in exists
    /\ opens' = Append(opens, xml_file)
    /\ handles' = handles \cup {xml_file}
    /\ pc' = "read"
    /\ UNCHANGED <<Files, Locals, Globals, call, failure>>

\* faulty variant: the error of open is swallowed and the script goes on
OpenInFailContinue ==
    /\ pc = "open_in"
    /\ opens' = Append(opens, xml_file)
    /\ failure' = [err |-> "FileAccessError", at |-> "open_in", call |-> call]
    /\ pc' = IF call = 1 THEN "call2" ELSE "open_out1"
    /\ UNCHANGED <<Files, Locals, Globals, call, handles>>

\* line 4: open raises (file missing or not readable)
OpenInFail ==
    /\ pc = "open_in"
    /\ opens' = Append(opens, xml_file)
    /\ Raise("FileAccessError", "open_in")
    /\ UNCHANGED <<Files, Locals, Globals, call, handles>>

\* line 5: f.read() returns the decoded content; the with block closes f
Read ==
    /\ pc = "read"
    /\ content' = fs[xml_file]
    /\ handles' = handles \ {xml_file}
    /\ pc' = "findall"
    /\ UNCHANGED <<Files, Globals, call, opens, failure, xml_file, texts,
                   full_text>>

\* faulty variant: no with block, the handle stays open when read raises
ReadFailLeak ==
    /\ pc = "read"
    /\ \E err \in {"DecodingError", "FileAccessError"} : Raise(err, "read")
    /\ UNCHANGED <<Files, Locals, Globals, call, opens, handles>>

\* line 5: f.read() raises; the with block closes f on the way out
ReadFail ==
    /\ pc = "read"
    /\ handles' = handles \ {xml_file}
    /\ \E err \in {"DecodingError", "FileAccessError"} : Raise(err, "read")
    /\ UNCHANGED <<Files, Locals, Globals, call, opens>>

\* line 8
Findall ==
    /\ pc = "findall"
    /\ texts' = FindAll(content)
    /\ pc' = "join"
    /\ UNCHANGED <<Files, Globals, call, opens, failure, handles, xml_file,
                   content, full_text>>

\* faulty variant: full_text accumulates over the calls
JoinAccumulate ==
    /\ pc = "join"
    /\ full_text' = full_text \o JoinTexts(texts)
    /\ pc' = "return"
    /\ UNCHANGED <<Files, Globals, call, opens, failure, handles, xml_file,
                   content, texts>>

\* line 11
Join ==
    /\ pc = "join"
    /\ full_text' = JoinTexts(texts)
    /\ pc' = "return"
    /\ UNCHANGED <<Files, Globals, call, opens, failure, handles, xml_file,
                   content, texts>>

\* line 13 and the assignment of the result at the call site (16, 17)
Return ==
    /\ pc = "return"
    /\ IF call = 1
       THEN original' = full_text /\ pc' = "call2" /\ UNCHANGED optimized
       ELSE optimized' = full_text /\ pc' = "open_out1"
                /\ UNCHANGED original
    /\ UNCHANGED <<Files, Locals, stdout, call, opens, failure, handles>>

(* ----------------------------- the script ----------------------------- *)

\* entering the function with the argument path
Enter(n, path) ==
    /\ call' = n
    /\ xml_file' = path
    /\ pc' = "open_in"
    /\ UNCHANGED <<Files, Globals, opens, failure, handles, content, texts,
                   full_text>>

\* line 16
Call1 == pc = "call1" /\ Enter(1, OriginalXml)

\* line 17
Call2 == pc = "call2" /\ Enter(2, OptimizedXml)

\* a second call on the same file as the first
Call2Same == pc = "call2" /\ Enter(2, OriginalXml)

\* faulty variant: the file opened in mode 'a', which does not truncate
OpenWAppend(at, path, next) ==
    /\ pc = at
    /\ opens' = Append(opens, path)
    /\ exists' = exists \cup {path}
    /\ handles' = handles \cup {path}
    /\ pc' = next
    /\ UNCHANGED <<fs, fs0, exists0, Locals, Globals, call, failure>>

\* open(path, 'w'): the file is created or truncated
OpenW(at, path, next) ==
    /\ pc = at
    /\ opens' = Append(opens, path)
    /\ exists' = exists \cup {path}
    /\ fs' = [fs EXCEPT ![path] = <<>>]
    /\ handles' = handles \cup {path}
    /\ pc' = next
    /\ UNCHANGED <<fs0, exists0, Locals, Globals, call, failure>>

\* open(path, 'w') raises: nothing is created
OpenWFail(at, path) ==
    /\ pc = at
    /\ opens' = Append(opens, path)
    /\ Raise("FileAccessError", at)
    /\ UNCHANGED <<Files, Locals, Globals, call, handles>>

\* f.write(text) at the file position, then the with block closes f
WriteW(at, path, text, next) ==
    /\ pc = at
    /\ fs' = [fs EXCEPT ![path] = @ \o text]
    /\ handles' = handles \ {path}
    /\ pc' = next
    /\ UNCHANGED <<exists, fs0, exists0, Locals, Globals, call, opens,
                   failure>>

\* the write raises after some prefix of the text reached the file; the
\* with block closes f on the way out
WriteWFail(at, path, text) ==
    /\ pc = at
    /\ \E n \in 0..MaxPartial :
          /\ n < Len(text) \/ n = 0
          /\ fs' = [fs EXCEPT ![path] = @ \o SubSeq(text, 1, n)]
    /\ handles' = handles \ {path}
    /\ Raise("FileAccessError", at)
    /\ UNCHANGED <<exists, fs0, exists0, Locals, Globals, call, opens>>

\* line 20
OpenOriginalTxt == OpenW("open_out1", OriginalTxt, "write1")
OpenOriginalTxtFail == OpenWFail("open_out1", OriginalTxt)
\* line 21
WriteOriginal == WriteW("write1", OriginalTxt, original, "open_out2")
WriteOriginalFail == WriteWFail("write1", OriginalTxt, original)
\* line 23
OpenOptimizedTxt == OpenW("open_out2", OptimizedTxt, "write2")
\* faulty variant: the error of the second open is swallowed
OpenOptimizedTxtFailSwallowed ==
    /\ pc = "open_out2"
    /\ opens' = Append(opens, OptimizedTxt)
    /\ pc' = "print"
    /\ UNCHANGED <<Files, Locals, Globals, call, handles, failure>>
OpenOptimizedTxtFail == OpenWFail("open_out2", OptimizedTxt)
\* line 24
WriteOptimized == WriteW("write2", OptimizedTxt, optimized, "print")
WriteOptimizedFail == WriteWFail("write2", OptimizedTxt, optimized)

\* lines 26-31: what each print call writes, as the tuple of its arguments
Diagnostics ==
    << <<"Original length:", Len(original)>>,
       <<"Optimized length:", Len(optimized)>>,
       <<"\n=== ORIGINAL ===">>,
       <<Preview(original)>>,
       <<"\n=== OPTIMIZED ===">>,
       <<Preview(optimized)>> >>

\* lines 26-31, one print call at a time
PrintStep ==
    /\ pc = "print"
    /\ stdout' = Append(stdout, Diagnostics[Len(stdout) + 1])
    /\ pc' = IF Len(stdout') = Len(Diagnostics) THEN "done" ELSE "print"
    /\ UNCHANGED <<Files, Locals, original, optimized, call, opens,
                   failure, handles>>

\* lines 26-31: a print call raises (stdout closed, or a character the
\* console encoding lacks); nothing of that call reaches stdout
PrintFail ==
    /\ pc = "print"
    /\ Raise("PrintError", "print")
    /\ UNCHANGED <<Files, Locals, Globals, call, opens, handles>>

Extract ==
    \/ OpenIn
    \/ OpenInFail
    \/ Read
    \/ ReadFail
    \/ Findall
    \/ Join
    \/ Return

Next ==
    \/ Call1
    \/ Call2
    \/ Extract
    \/ OpenOriginalTxt
    \/ OpenOriginalTxtFail
    \/ WriteOriginal
    \/ WriteOriginalFail
    \/ OpenOptimizedTxt
    \/ OpenOptimizedTxtFail
    \/ WriteOptimized
    \/ WriteOptimizedFail
    \/ PrintStep
    \/ PrintFail

Spec == Init /\ [][Next]_vars

NextExtract ==
    \/ Call1
    \/ Call2Same
    \/ Extract

SpecExtract == InitExtract /\ [][NextExtract]_vars

(* ---------------------- properties: extraction ---------------------- *)

\* the function has computed its result
Joined == pc = "return"

\* a text span as the specification defines it: an opening tag whose name
\* is exactly w:t (the name ends at '>' or at white space), up to the
\* nearest closing tag after it
ExactName(s, i) ==
    /\ Lit(s, i, OpenPrefix)
    /\ i + Len(OpenPrefix) <= Len(s)
    /\ s[i + Len(OpenPrefix)] \in {">", " ", "\n"}

SpanAt(s, i) ==
    IF ~ExactName(s, i) THEN NoMatch
    ELSE LET js == {j \in (i + Len(OpenPrefix))..Len(s) : s[j] = ">"}
         IN  IF js = {} THEN NoMatch
             ELSE LET j == Min(js)
                      ks == {k \in (j + 1)..Len(s) : Lit(s, k, CloseTag)}
                  IN  IF ks = {} THEN NoMatch
                      ELSE [open |-> i, gt |-> j, close |-> Min(ks),
                            end |-> Min(ks) + Len(CloseTag) - 1]

RECURSIVE Spans(_, _)
Spans(s, pos) ==
    LET is == {i \in pos..Len(s) : SpanAt(s, i) /= NoMatch}
    IN  IF is = {} THEN <<>>
        ELSE LET m == SpanAt(s, Min(is))
             IN  <<m>> \o Spans(s, m.end + 1)

RECURSIVE SpanText(_, _)
SpanText(s, ms) ==
    IF ms = <<>> THEN <<>>
    ELSE SubSeq(s, Head(ms).gt + 1, Head(ms).close - 1)
             \o SpanText(s, Tail(ms))

\* C1: the result is exactly the contents of the text spans of the input,
\* in their order, with no separator and nothing from outside the spans
C1_SpansOnly ==
    Joined => full_text = SpanText(content, Spans(content, 1))

\* C2: every captured text was opened by a tag whose name is exactly w:t
C2_ExactMarker ==
    Joined =>
        /\ Len(texts) = Len(Matches(content))
        /\ \A i \in 1..Len(texts) :
              ExactName(content, Matches(content)[i].open)

\* l occurs somewhere in s
Occurs(s, l) == \E i \in 1..Len(s) : Lit(s, i, l)

\* C3: each span ends at the nearest closing tag after its opening tag:
\* no captured text contains the closing tag, the matches do not overlap,
\* and the scan resumes right after the closing tag (no opening tag that
\* starts a match is skipped between two matches)
C3_NearestClose ==
    Joined =>
        LET ms == Matches(content)
        IN  /\ Len(texts) = Len(ms)
            /\ \A i \in 1..Len(ms) :
                  /\ texts[i] = SubSeq(content, ms[i].gt + 1, ms[i].close - 1)
                  /\ ~Occurs(texts[i], CloseTag)
                  /\ Lit(content, ms[i].close, CloseTag)
                  /\ ms[i].open < ms[i].gt /\ ms[i].gt < ms[i].close
            /\ \A i \in 1..(Len(ms) - 1) :
                  /\ ms[i].end < ms[i + 1].open
                  /\ \A p \in (ms[i].end + 1)..(ms[i + 1].open - 1) :
                        ~(/\ Lit(content, p, OpenPrefix)
                          /\ \E j \in (p + 1)..Len(content) :
                                /\ content[j] = ">"
                                /\ \E k \in (j + 1)..Len(content) :
                                      Lit(content, k, CloseTag))

\* two spans were found and a closing tag lies between them
C3_Witness ==
    /\ Joined
    /\ Len(texts) = 2
    /\ LET ms == Matches(content)
       IN  \E p \in (ms[1].end + 1)..(ms[2].open - 1) :
              Lit(content, p, CloseTag)

ExtractPcs == {"open_in", "read", "findall", "join", "return"}

\* C10: two successive calls on the same unchanged file return the same
\* text, and no step of a call changes any file
C10_Deterministic ==
    /\ [](pc = "open_out1" /\ call = 2 => optimized = original)
    /\ [][(pc \in ExtractPcs) => UNCHANGED <<fs, exists>>]_vars

\* both calls returned a text of two spans
C10_Witness ==
    /\ pc = "open_out1"
    /\ call = 2
    /\ Len(texts) = 2
    /\ original /= <<>>

(* ---------------------- properties: the script ----------------------- *)

OutPcs == {"open_out1", "write1", "open_out2", "write2"}
Done == pc = "done"
Failed == pc = "failed"

\* the first call has returned / the second call has returned
Returned1 == pc = "call2" \/ call = 2
Returned2 ==
    \/ pc \in OutPcs \cup {"print", "done"}
    \/ Failed /\ failure.at \in OutPcs \cup {"print"}

\* the input has no span marker: the opening literal occurs nowhere
NoSpanMarker(s) == ~Occurs(s, OpenPrefix)

\* the output file at path is as it was before the run
Untouched(path) ==
    /\ fs[path] = fs0[path]
    /\ (path \in exists) = (path \in exists0)

\* C4: an input without any span marker extracts to the empty string, and
\* a run that completes leaves the matching output file present and empty
C4_EmptyCase ==
    /\ (Returned1 /\ NoSpanMarker(fs0[OriginalXml])) => original = <<>>
    /\ (Returned2 /\ NoSpanMarker(fs0[OptimizedXml])) => optimized = <<>>
    /\ (Done /\ NoSpanMarker(fs0[OriginalXml])) =>
          (OriginalTxt \in exists /\ fs[OriginalTxt] = <<>>)
    /\ (Done /\ NoSpanMarker(fs0[OptimizedXml])) =>
          (OptimizedTxt \in exists /\ fs[OptimizedTxt] = <<>>)

\* a completed run on a non-empty original input without markers whose
\* output file held text before
C4_Witness ==
    /\ Done
    /\ fs0[OriginalXml] /= <<>>
    /\ NoSpanMarker(fs0[OriginalXml])
    /\ fs0[OriginalTxt] /= <<>>
    /\ fs[OriginalTxt] = <<>>
    /\ optimized /= <<>>

\* both output files hold their text and every diagnostic was printed
FullSuccess ==
    /\ OriginalTxt \in exists /\ fs[OriginalTxt] = original
    /\ OptimizedTxt \in exists /\ fs[OptimizedTxt] = optimized
    /\ stdout = Diagnostics

\* C5 as stated: a terminated run either succeeded in full or failed with
\* neither output file modified
C5_NoPartialSuccess ==
    /\ Done => FullSuccess
    /\ Failed => (Untouched(OriginalTxt) /\ Untouched(OptimizedTxt))

\* C5 amended: a terminated run either succeeded in full or failed; a
\* failure before the printing leaves nothing printed; a failure at an
\* input or at the opening of the original output file leaves both output
\* files unmodified, a failure at the writing of the original output file
\* leaves the optimized output file unmodified, a failure at the optimized
\* output file leaves the original output file holding its whole text, and
\* a failure at the printing leaves both output files holding their texts
C5_Amended ==
    /\ Done => FullSuccess
    /\ Failed =>
          /\ failure.at /= "print" => stdout = <<>>
          /\ failure.at = "print" =>
                /\ fs[OriginalTxt] = original
                /\ fs[OptimizedTxt] = optimized
          /\ failure.at \in {"open_in", "read", "open_out1"} =>
                (Untouched(OriginalTxt) /\ Untouched(OptimizedTxt))
          /\ failure.at = "write1" =>
                (OriginalTxt \in exists /\ Untouched(OptimizedTxt))
          /\ failure.at \in {"open_out2", "write2"} =>
                (OriginalTxt \in exists /\ fs[OriginalTxt] = original)

\* the run failed at the optimized output file after it replaced the old
\* content of the original output file
C5_Witness ==
    /\ Failed
    /\ failure.at = "open_out2"
    /\ fs0[OriginalTxt] /= <<>>
    /\ original /= <<>>
    /\ fs[OriginalTxt] = original
    /\ Untouched(OptimizedTxt)

\* the reading of the first input failed
FirstInputFailed == failure.call = 1 /\ failure.at \in {"open_in", "read"}

\* C6: when opening, reading or decoding the first input fails the run is
\* over: the first input was opened at most once and nothing else was, no
\* output file changed and nothing was printed
C6_FirstFailureStops ==
    FirstInputFailed =>
        /\ Failed
        /\ opens = <<OriginalXml>>
        /\ handles = {}
        /\ stdout = <<>>
        /\ optimized = <<>>
        /\ Untouched(OriginalTxt) /\ Untouched(OptimizedTxt)

\* the first input exists, as does the second, and could not be decoded
C6_Witness ==
    /\ FirstInputFailed
    /\ failure.err = "DecodingError"
    /\ OriginalXml \in exists
    /\ OptimizedXml \in exists
    /\ fs[OptimizedXml] /= <<>>

\* C7: at most one file is open at a time, a file is opened only when none
\* is open, and none is open when the run has ended
C7_OneHandle ==
    /\ [](Cardinality(handles) <= 1)
    /\ []((Done \/ Failed) => handles = {})
    /\ [][(handles' /= handles /\ handles' /= {}) => handles = {}]_vars

\* the run ended by an error raised while a file was open
C7_Witness ==
    /\ Failed
    /\ failure.at \in {"read", "write1", "write2"}
    /\ handles = {}

\* C8: after a successful run each output file holds exactly the text
\* extracted from its input, whatever it held before
C8_OutputsReplaced ==
    Done =>
        /\ OriginalTxt \in exists
        /\ OptimizedTxt \in exists
        /\ fs[OriginalTxt] = original
        /\ fs[OriginalTxt] = JoinTexts(FindAll(fs0[OriginalXml]))
        /\ fs[OptimizedTxt] = optimized
        /\ fs[OptimizedTxt] = JoinTexts(FindAll(fs0[OptimizedXml]))

\* both output files held old text and the two extracted texts differ
C8_Witness ==
    /\ Done
    /\ fs0[OriginalTxt] = OldText
    /\ fs0[OptimizedTxt] = OldText
    /\ original /= <<>>
    /\ optimized /= <<>>
    /\ original /= optimized

\* p is the prefix of t of at most PreviewLen characters
IsPreviewOf(p, t) ==
    /\ Len(p) = (IF Len(t) <= PreviewLen THEN Len(t) ELSE PreviewLen)
    /\ \A i \in 1..Len(p) : p[i] = t[i]
    /\ Len(t) <= PreviewLen => p = t

\* C9: the diagnostics come in the order original length, optimized
\* length, original preview, optimized preview (each preview under its
\* label); each length is that of the text in the matching output file and
\* each preview is the prefix of that text of at most 1000 characters
C9_Diagnostics ==
    /\ Len(stdout) <= 6
    /\ Len(stdout) >= 1 => stdout[1][1] = "Original length:"
    /\ Len(stdout) >= 2 => stdout[2][1] = "Optimized length:"
    /\ Len(stdout) >= 3 => stdout[3] = <<"\n=== ORIGINAL ===">>
    /\ Len(stdout) >= 5 => stdout[5] = <<"\n=== OPTIMIZED ===">>
    /\ Done =>
          /\ Len(stdout) = 6
          /\ stdout[1][2] = Len(fs[OriginalTxt])
          /\ stdout[2][2] = Len(fs[OptimizedTxt])
          /\ Len(stdout[4]) = 1
          /\ IsPreviewOf(stdout[4][1], fs[OriginalTxt])
          /\ Len(stdout[6]) = 1
          /\ IsPreviewOf(stdout[6][1], fs[OptimizedTxt])

\* one text is longer than the preview and the other is shorter
C9_Witness ==
    /\ Done
    /\ Len(original) > PreviewLen
    /\ optimized /= <<>>
    /\ Len(optimized) < PreviewLen

====
